---- MODULE Spec2Model ----
(***************************************************************************)
(* Model of install.py, the WASI SDK installer: version resolution, URL    *)
(* construction, download and extraction, and the GitHub Actions exports.  *)
(* Python strings are modelled as sequences of one-character strings so    *)
(* that rstrip, replace, lower, split and join act character by character. *)
(***************************************************************************)
EXTENDS Integers, Sequences, FiniteSets, TLC

\* ------------------------------------------------------------------------
\* Bounds of the model
\* ------------------------------------------------------------------------
MaxVerLen == 3
MaxNameLen == 3
MaxMembers == 2
MaxRuns == 2

\* ------------------------------------------------------------------------
\* String literals of the program
\* ------------------------------------------------------------------------
\* 'latest'
LATEST ==
    <<"l", "a", "t", "e", "s", "t">>
\* 'wasi-sdk-'
TAG_PREFIX ==
    <<"w", "a", "s", "i", "-", "s", "d", "k", "-">>
\* 'https://github.com/WebAssembly/wasi-sdk/releases/download'
BASE ==
    <<"h", "t", "t", "p", "s", ":", "/", "/", "g", "i", "t", "h", "u", "b", ".",
      "c", "o", "m", "/", "W", "e", "b", "A", "s", "s", "e", "m", "b", "l", "y",
      "/", "w", "a", "s", "i", "-", "s", "d", "k", "/", "r", "e", "l", "e", "a",
      "s", "e", "s", "/", "d", "o", "w", "n", "l", "o", "a", "d">>
\* 'Darwin'
DARWIN ==
    <<"D", "a", "r", "w", "i", "n">>
\* 'macos'
MACOS ==
    <<"m", "a", "c", "o", "s">>
\* 'amd64'
AMD64 ==
    <<"a", "m", "d", "6", "4">>
\* 'x86_64'
X86_64 ==
    <<"x", "8", "6", "_", "6", "4">>
\* '.tar.gz'
TAR_GZ ==
    <<".", "t", "a", "r", ".", "g", "z">>
\* 'bin'
BIN ==
    <<"b", "i", "n">>
\* 'clang'
CLANG ==
    <<"c", "l", "a", "n", "g">>
\* '.exe'
EXE ==
    <<".", "e", "x", "e">>
\* 'share'
SHARE ==
    <<"s", "h", "a", "r", "e">>
\* 'wasi-sysroot'
WASI_SYSROOT ==
    <<"w", "a", "s", "i", "-", "s", "y", "s", "r", "o", "o", "t">>
\* ' --sysroot='
SYSROOT_FLAG ==
    <<" ", "-", "-", "s", "y", "s", "r", "o", "o", "t", "=">>
\* 'WASI_SDK_PATH='
K_WASI_SDK_PATH ==
    <<"W", "A", "S", "I", "_", "S", "D", "K", "_", "P", "A", "T", "H", "=">>
\* 'WASI_SDK_VERSION='
K_WASI_SDK_VERSION ==
    <<"W", "A", "S", "I", "_", "S", "D", "K", "_", "V", "E", "R", "S", "I", "O",
      "N", "=">>
\* 'CC='
K_CC ==
    <<"C", "C", "=">>
\* 'CXX='
K_CXX ==
    <<"C", "X", "X", "=">>
\* 'wasi-sdk-path='
K_OUT_PATH ==
    <<"w", "a", "s", "i", "-", "s", "d", "k", "-", "p", "a", "t", "h", "=">>
\* 'wasi-sdk-version='
K_OUT_VERSION ==
    <<"w", "a", "s", "i", "-", "s", "d", "k", "-", "v", "e", "r", "s", "i", "o",
      "n", "=">>
\* 'clang-path='
K_OUT_CLANG ==
    <<"c", "l", "a", "n", "g", "-", "p", "a", "t", "h", "=">>
\* 'sysroot-path='
K_OUT_SYSROOT ==
    <<"s", "y", "s", "r", "o", "o", "t", "-", "p", "a", "t", "h", "=">>
\* the newline character
NL == "\n"

\* ------------------------------------------------------------------------
\* Python string primitives
\* ------------------------------------------------------------------------
Range(s) == {s[i] : i \in 1..Len(s)}

\* all strings over an alphabet of length at most n
Str(alphabet, n) == UNION {[1..k -> alphabet] : k \in 0..n}

UPPER ==
    <<"A", "B", "C", "D", "E", "F", "G", "H", "I", "J", "K", "L", "M", "N", "O",
      "P", "Q", "R", "S", "T", "U", "V", "W", "X", "Y", "Z">>
LOWER ==
    <<"a", "b", "c", "d", "e", "f", "g", "h", "i", "j", "k", "l", "m", "n", "o",
      "p", "q", "r", "s", "t", "u", "v", "w", "x", "y", "z">>

LowerChar(c) ==
    IF \E i \in 1..Len(UPPER) : UPPER[i] = c
    THEN LOWER[CHOOSE i \in 1..Len(UPPER) : UPPER[i] = c]
    ELSE c

\* str.lower()
Lower(s) == [i \in 1..Len(s) |-> LowerChar(s[i])]

\* str.rstrip(chars): drops every trailing character that is in chars
RECURSIVE RStrip(_, _)
RStrip(s, chars) ==
    IF s # <<>> /\ s[Len(s)] \in chars
    THEN RStrip(SubSeq(s, 1, Len(s) - 1), chars)
    ELSE s

\* str.replace(old, ''): removes the occurrences of old, left to right
RECURSIVE RemoveAll(_, _)
RemoveAll(s, old) ==
    IF Len(s) < Len(old) THEN s
    ELSE IF SubSeq(s, 1, Len(old)) = old
         THEN RemoveAll(SubSeq(s, Len(old) + 1, Len(s)), old)
         ELSE <<Head(s)>> \o RemoveAll(Tail(s), old)

\* str.split(sep) for a one-character separator: keeps empty segments
RECURSIVE Split(_, _)
Split(s, sep) ==
    IF sep \notin Range(s) THEN <<s>>
    ELSE LET i == CHOOSE k \in 1..Len(s) :
                      s[k] = sep /\ \A j \in 1..(k - 1) : s[j] # sep
         IN <<SubSeq(s, 1, i - 1)>> \o Split(SubSeq(s, i + 1, Len(s)), sep)

\* sep.join(parts)
RECURSIVE Join(_, _)
Join(parts, sep) ==
    IF parts = <<>> THEN <<>>
    ELSE IF Len(parts) = 1 THEN parts[1]
    ELSE parts[1] \o <<sep>> \o Join(Tail(parts), sep)

\* ------------------------------------------------------------------------
\* calculate_version_and_tag
\* ------------------------------------------------------------------------
\* tag of a literal version: 'wasi-sdk-' + version.rstrip('.0')
TagOf(v) == TAG_PREFIX \o RStrip(v, {".", "0"})

\* version of a fetched tag: tag.replace('wasi-sdk-', '')
VersionFromTag(t) == RemoveAll(t, TAG_PREFIX)

NormalizeVersion_always(v) == v \o <<".", "0">>
\* if '.' not in version: version = f'{version}.0'
NormalizeVersion(v) == IF "." \notin Range(v) THEN v \o <<".", "0">> ELSE v

\* the else branch followed by the normalisation
CalcLiteral(v) == [version |-> NormalizeVersion(v), tag |-> TagOf(v)]

\* the 'latest' branch followed by the normalisation
CalcLatest(fetched) ==
    [version |-> NormalizeVersion(VersionFromTag(fetched)), tag |-> fetched]

\* ------------------------------------------------------------------------
\* calculate_artifact_url
\* ------------------------------------------------------------------------
OsName_keepcase(os) == IF os = DARWIN THEN MACOS ELSE os
\* if os == 'Darwin': os = 'macos' else: os = os.lower()
OsName(os) == IF os = DARWIN THEN MACOS ELSE Lower(os)

\* if arch.lower() == 'amd64': arch = 'x86_64'
ArchName(arch) == IF Lower(arch) = AMD64 THEN X86_64 ELSE arch

\* f'{base}/{tag}/wasi-sdk-{version}-{arch}-{os}.tar.gz'
calculate_artifact_url(v, t, arch, os) ==
    BASE \o <<"/">> \o t \o <<"/">> \o TAG_PREFIX \o v \o <<"-">>
         \o ArchName(arch) \o <<"-">> \o OsName(os) \o TAR_GZ

\* ------------------------------------------------------------------------
\* install: archive members, the install directory and the checks
\* ------------------------------------------------------------------------
\* parts = member.name.split('/')
Parts(name) == Split(name, "/")

\* if len(parts) > 1
IsExtracted_any(name) == Len(Parts(name)) >= 1
IsExtracted(name) == Len(Parts(name)) > 1

\* member.name = '/'.join(parts[1:])
StripFirst(name) == Join(Tail(Parts(name)), "/")

\* The directory tree is a set of entries [path, isdir, outside]: path is
\* the sequence of non-empty segments of the entry's name; outside marks a
\* name that starts with '/', which os.path.join places outside install_dir.
NonEmpty(seg) == seg # <<>>
FsPath(name) == SelectSeq(Split(name, "/"), NonEmpty)
IsAbsolute(name) == name # <<>> /\ name[1] = "/"
Parents(path) == {SubSeq(path, 1, k) : k \in 0..(Len(path) - 1)}
Root == [path |-> <<>>, isdir |-> TRUE, outside |-> FALSE]

\* tar.extract fails when the target exists with the other type, or when a
\* parent of the target is a regular file
Conflict(tree, name, isdir) ==
    \E e \in tree :
        /\ e.outside = IsAbsolute(name)
        /\ \/ e.path = FsPath(name) /\ e.isdir # isdir
           \/ e.path \in Parents(FsPath(name)) /\ ~e.isdir

\* tar.extract(member, path=install_dir): the entry and its parent directories
Extract(tree, name, isdir) ==
    tree \cup {[path |-> FsPath(name), isdir |-> isdir, outside |-> IsAbsolute(name)]}
         \cup {[path |-> q, isdir |-> TRUE, outside |-> IsAbsolute(name)] :
                   q \in Parents(FsPath(name))}

\* ext = '.exe' if sep == '\\' else ''
Ext(sep) == IF sep = "\\" THEN EXE ELSE <<>>

\* clang_path = f'{install_dir}{sep}bin{sep}clang{ext}'
ClangPath(dir, sep) == dir \o <<sep>> \o BIN \o <<sep>> \o CLANG \o Ext(sep)

\* sysroot_path = f'{install_dir}{sep}share{sep}wasi-sysroot'
SysrootPath(dir, sep) == dir \o <<sep>> \o SHARE \o <<sep>> \o WASI_SYSROOT

ClangIsFile_unchecked(tree, sep) == TRUE
\* os.path.isfile(clang_path)
ClangIsFile(tree, sep) ==
    [path |-> <<BIN, CLANG \o Ext(sep)>>, isdir |-> FALSE, outside |-> FALSE] \in tree

\* os.path.isdir(sysroot_path)
SysrootIsDir(tree) ==
    [path |-> <<SHARE, WASI_SYSROOT>>, isdir |-> TRUE, outside |-> FALSE] \in tree

NamedTemporaryFile_delete_default == TRUE
\* tempfile.NamedTemporaryFile(delete=False)
NamedTemporaryFile_delete == FALSE

\* the temporary files on disk once install's file object is released
ReleaseTemp(temps, id) ==
    IF NamedTemporaryFile_delete THEN temps \ {id} ELSE temps

OnNetworkError_retry(retryPc) == retryPc
\* urlopen and urlretrieve are called outside any try block: the error
\* propagates and ends the run
OnNetworkError(retryPc) == "failed"

\* ------------------------------------------------------------------------
\* write_github_path, write_github_output
\* ------------------------------------------------------------------------
\* os.path.dirname: posixpath splits at the last '/', ntpath keeps the drive
\* and splits at the last '\' or '/'; trailing separators of the head are
\* dropped unless the head consists of separators only
PathSeps(sep) == IF sep = "\\" THEN {"\\", "/"} ELSE {"/"}
DriveLen(p, sep) == IF sep = "\\" /\ Len(p) >= 2 /\ p[2] = ":" THEN 2 ELSE 0
Dirname(p, sep) ==
    LET d    == DriveLen(p, sep)
        rest == SubSeq(p, d + 1, Len(p))
        cut  == IF \E k \in 1..Len(rest) : rest[k] \in PathSeps(sep)
                THEN CHOOSE k \in 1..Len(rest) :
                         /\ rest[k] \in PathSeps(sep)
                         /\ \A j \in (k + 1)..Len(rest) : rest[j] \notin PathSeps(sep)
                ELSE 0
        head == SubSeq(rest, 1, cut)
        bare == RStrip(head, PathSeps(sep))
    IN SubSeq(p, 1, d) \o (IF bare = <<>> THEN head ELSE bare)

\* the four lines appended to the GITHUB_ENV file
EnvLines(dir, v, cp, sp) ==
    K_WASI_SDK_PATH \o dir \o <<NL>>
    \o K_WASI_SDK_VERSION \o v \o <<NL>>
    \o K_CC \o cp \o SYSROOT_FLAG \o sp \o <<NL>>
    \o K_CXX \o cp \o <<"+", "+">> \o SYSROOT_FLAG \o sp \o <<NL>>

\* the four lines appended to the GITHUB_OUTPUT file
OutputLines(dir, v, cp, sp) ==
    K_OUT_PATH \o dir \o <<NL>>
    \o K_OUT_VERSION \o v \o <<NL>>
    \o K_OUT_CLANG \o cp \o <<NL>>
    \o K_OUT_SYSROOT \o sp \o <<NL>>

\* write_github_path: the assertion on GITHUB_PATH, the append to the path
\* file, the lookup of GITHUB_ENV, the append to the env file
write_github_path(e, pf, ef, dir, v, cp, sp, sep) ==
    IF "GITHUB_PATH" \notin e
    THEN [ok |-> FALSE, path |-> pf, env |-> ef]
    ELSE IF "GITHUB_ENV" \notin e
    THEN [ok |-> FALSE, path |-> pf \o Dirname(cp, sep), env |-> ef]
    ELSE [ok |-> TRUE, path |-> pf \o Dirname(cp, sep),
          env |-> ef \o EnvLines(dir, v, cp, sp)]

\* write_github_output: the assertion on GITHUB_OUTPUT, then the append
write_github_output(e, of, dir, v, cp, sp) ==
    IF "GITHUB_OUTPUT" \notin e
    THEN [ok |-> FALSE, output |-> of]
    ELSE [ok |-> TRUE, output |-> of \o OutputLines(dir, v, cp, sp)]

ShouldWritePath_env(flag, e) == flag \/ "GITHUB_PATH" \in e
\* main: if add_to_path
ShouldWritePath(flag, e) == flag

\* main: if 'GITHUB_OUTPUT' in os.environ
ShouldWriteOutput(e) == "GITHUB_OUTPUT" \in e

\* ------------------------------------------------------------------------
\* State
\* ------------------------------------------------------------------------
VARIABLES
    pc,           \* position of the run in main and install
    run,          \* number of the current run of the script
    failedAt,     \* the step at which the current run raised, or "none"
    argVersion,   \* --version
    add_to_path,  \* --add-to-path
    env,          \* names of the GitHub variables set in os.environ
    host,         \* platform.machine(), platform.system(), os.path.sep and
                  \* the absolute install directory
    version,      \* main: version after calculate_version_and_tag
    tag,          \* main: tag after calculate_version_and_tag
    url,          \* main: url
    metaAttempts, \* requests sent to the releases endpoint in this run
    dlAttempts,   \* downloads started in this run
    tempFiles,    \* temporary download files on disk, named by run
    archive,      \* members of the downloaded archive
    idx,          \* position of the extraction loop in the archive
    extracted,    \* names passed to tar.extract in this run, in order
    madeDirs,     \* os.makedirs(install_dir) was called in this run
    fs,           \* entries below (or, for absolute names, outside) install_dir
    clang_path,   \* main: clang_path returned by install
    sysroot_path, \* main: sysroot_path returned by install
    pathFile,     \* content of the file named by GITHUB_PATH
    envFile,      \* content of the file named by GITHUB_ENV
    outputFile,   \* content of the file named by GITHUB_OUTPUT
    before        \* content of the three files when the run started

vars == <<pc, run, failedAt, argVersion, add_to_path, env, host, version, tag,
          url, metaAttempts, dlAttempts, tempFiles, archive, idx, extracted,
          madeDirs, fs, clang_path, sysroot_path, pathFile, envFile,
          outputFile, before>>

inputs == <<argVersion, add_to_path, env, host>>
locals == <<version, tag, url, clang_path, sysroot_path>>
network == <<metaAttempts, dlAttempts>>
disk == <<tempFiles, archive, idx, extracted, madeDirs, fs>>
ciFiles == <<pathFile, envFile, outputFile, before>>

GithubVars == {"GITHUB_PATH", "GITHUB_ENV", "GITHUB_OUTPUT"}

\* ------------------------------------------------------------------------
\* Inputs of the runs
\* ------------------------------------------------------------------------
\* '/w' and 'C:\w'
PosixDir == <<"/", "w">>
WindowsDir == <<"C", ":", "\\", "w">>

\* 'Linux', 'Windows', 'arm64'
LINUX == <<"L", "i", "n", "u", "x">>
WINDOWS == <<"W", "i", "n", "d", "o", "w", "s">>
ARM64 == <<"a", "r", "m", "6", "4">>

Hosts ==
    { [machine |-> X86_64, system |-> LINUX, sep |-> "/", install_dir |-> PosixDir],
      [machine |-> ARM64, system |-> DARWIN, sep |-> "/", install_dir |-> PosixDir],
      [machine |-> <<"A", "M", "D", "6", "4">>, system |-> WINDOWS, sep |-> "\\",
       install_dir |-> WindowsDir] }

\* '25' and 'latest'; the release endpoint answers 'wasi-sdk-24'
RunVersions == {<<"2", "5">>, LATEST}
RunTags == {TAG_PREFIX \o <<"2", "4">>}

File(name) == [name |-> name, isdir |-> FALSE]
Dir(name) == [name |-> name, isdir |-> TRUE]
\* 'r', 'r/bin/clang', 'r/bin/clang.exe', 'r/share', 'r/share/wasi-sysroot'
TopName == <<"r">>
ClangName == <<"r", "/">> \o BIN \o <<"/">> \o CLANG
ClangExeName == ClangName \o EXE
ShareName == <<"r", "/">> \o SHARE
SysrootName == ShareName \o <<"/">> \o WASI_SYSROOT

RunArchives ==
    { <<Dir(TopName), File(ClangName), File(ClangExeName), Dir(SysrootName)>>,
      <<Dir(TopName), Dir(SysrootName)>>,
      <<File(ClangName), File(ClangExeName)>>,
      <<File(ShareName), Dir(SysrootName)>> }

\* versions and tags for the study of calculate_version_and_tag: a version
\* is a dotted number (a major without leading zero, at most one '.' followed
\* by a minor) or 'latest'; a fetched tag is any string, with or without the
\* 'wasi-sdk-' prefix
VersionChars == {"2", "5", "0", "."}
IsDotted(v) ==
    /\ v # <<>> /\ v[1] \notin {"0", "."} /\ v[Len(v)] # "."
    /\ Cardinality({i \in 1..Len(v) : v[i] = "."}) <= 1
AllVersions == {v \in Str(VersionChars, MaxVerLen) : IsDotted(v)} \cup {LATEST}
AllTags == {p \o b : p \in {<<>>, TAG_PREFIX}, b \in Str(VersionChars, MaxVerLen)}

\* machines and systems for the study of calculate_artifact_url
AllMachines ==
    {<<a, m, d, "6", "4">> : a \in {"a", "A"}, m \in {"m", "M"}, d \in {"d", "D"}}
        \cup {X86_64, ARM64, <<"a", "m", "d">>}
AllSystems ==
    {DARWIN, Lower(DARWIN), <<"D", "A", "R", "W", "I", "N">>, LINUX, WINDOWS,
     <<"F", "r", "e", "e", "B", "S", "D">>}

\* member names for the study of the extraction loop: tarfile yields
\* non-empty names and drops the trailing '/' of a directory name
NameChars == {"a", "/"}
AllNames == {n \in Str(NameChars, MaxNameLen) : n # <<>> /\ n[Len(n)] # "/"}
AllMembers == {[name |-> n, isdir |-> d] : n \in AllNames, d \in BOOLEAN}
AllArchives == UNION {[1..k -> AllMembers] : k \in 0..MaxMembers}

\* ------------------------------------------------------------------------
\* Initial states
\* ------------------------------------------------------------------------
NoFiles == [path |-> <<>>, env |-> <<>>, output |-> <<>>]

FreshLocals ==
    /\ version = <<>> /\ tag = <<>> /\ url = <<>>
    /\ clang_path = <<>> /\ sysroot_path = <<>>
    /\ metaAttempts = 0 /\ dlAttempts = 0
    /\ archive = <<>> /\ idx = 0 /\ extracted = <<>> /\ madeDirs = FALSE

EmptyFiles ==
    /\ pathFile = <<>> /\ envFile = <<>> /\ outputFile = <<>>
    /\ before = NoFiles

\* a first run of the script on a machine without an install directory
Init ==
    /\ pc = "start" /\ run = 1 /\ failedAt = "none"
    /\ argVersion \in RunVersions
    /\ add_to_path \in BOOLEAN
    /\ env \in SUBSET GithubVars
    /\ host \in Hosts
    /\ FreshLocals
    /\ tempFiles = {} /\ fs = {}
    /\ EmptyFiles

\* calculate_version_and_tag is entered with any version
InitVersion ==
    /\ pc = "start" /\ run = 1 /\ failedAt = "none"
    /\ argVersion \in AllVersions
    /\ add_to_path = FALSE /\ env = {}
    /\ host \in {h \in Hosts : h.system = LINUX}
    /\ FreshLocals
    /\ tempFiles = {} /\ fs = {}
    /\ EmptyFiles

\* calculate_artifact_url is entered with any machine and system
InitUrl ==
    /\ pc = "resolved" /\ run = 1 /\ failedAt = "none"
    /\ argVersion = <<"2", "5">>
    /\ add_to_path = FALSE /\ env = {}
    /\ host \in {[machine |-> m, system |-> s, sep |-> "/", install_dir |-> PosixDir] :
                     m \in AllMachines, s \in AllSystems}
    /\ \E v \in {<<"2", "5">>, <<"2", "5", ".", "1">>, <<"2", "0", ".", "0">>} :
           /\ version = CalcLiteral(v).version
           /\ tag = CalcLiteral(v).tag
    /\ url = <<>> /\ clang_path = <<>> /\ sysroot_path = <<>>
    /\ metaAttempts = 0 /\ dlAttempts = 0
    /\ archive = <<>> /\ idx = 0 /\ extracted = <<>> /\ madeDirs = FALSE
    /\ tempFiles = {} /\ fs = {}
    /\ EmptyFiles

\* the extraction loop is entered with any archive
InitExtract ==
    /\ pc = "extract" /\ run = 1 /\ failedAt = "none"
    /\ argVersion = <<"2", "5">>
    /\ add_to_path = FALSE /\ env = {}
    /\ host \in {h \in Hosts : h.system = LINUX}
    /\ version = CalcLiteral(argVersion).version
    /\ tag = CalcLiteral(argVersion).tag
    /\ url = calculate_artifact_url(version, tag, host.machine, host.system)
    /\ clang_path = <<>> /\ sysroot_path = <<>>
    /\ metaAttempts = 0 /\ dlAttempts = 1
    /\ archive \in AllArchives
    /\ idx = 1 /\ extracted = <<>> /\ madeDirs = TRUE
    /\ tempFiles = {1} /\ fs = {Root}
    /\ EmptyFiles

\* ------------------------------------------------------------------------
\* Steps of main
\* ------------------------------------------------------------------------
Fail(step) == pc' = "failed" /\ failedAt' = step

\* calculate_version_and_tag, else branch
ResolveLiteral ==
    /\ pc = "start" /\ argVersion # LATEST
    /\ version' = CalcLiteral(argVersion).version
    /\ tag' = CalcLiteral(argVersion).tag
    /\ pc' = "resolved"
    /\ UNCHANGED <<run, failedAt, inputs, url, clang_path, sysroot_path,
                   network, disk, ciFiles>>

\* calculate_version_and_tag, 'latest' branch: the request is answered
ResolveLatest(tags) ==
    /\ pc = "start" /\ argVersion = LATEST
    /\ metaAttempts' = metaAttempts + 1
    /\ \E fetched \in tags :
           /\ version' = CalcLatest(fetched).version
           /\ tag' = CalcLatest(fetched).tag
    /\ pc' = "resolved"
    /\ UNCHANGED <<run, failedAt, inputs, url, clang_path, sysroot_path,
                   dlAttempts, disk, ciFiles>>

\* calculate_version_and_tag, 'latest' branch: urlopen raises
ResolveLatestFail ==
    /\ pc = "start" /\ argVersion = LATEST
    /\ metaAttempts' = metaAttempts + 1
    /\ pc' = OnNetworkError("start")
    /\ failedAt' = "metadata"
    /\ UNCHANGED <<run, inputs, locals, dlAttempts, disk, ciFiles>>

\* calculate_artifact_url(version, tag, platform.machine(), platform.system())
BuildUrl ==
    /\ pc = "resolved"
    /\ url' = calculate_artifact_url(version, tag, host.machine, host.system)
    /\ pc' = "url"
    /\ UNCHANGED <<run, failedAt, inputs, version, tag, clang_path,
                   sysroot_path, network, disk, ciFiles>>

\* install: file = tempfile.NamedTemporaryFile(delete=False)
CreateTemp ==
    /\ pc = "url"
    /\ tempFiles' = tempFiles \cup {run}
    /\ pc' = "temp"
    /\ UNCHANGED <<run, failedAt, inputs, locals, network, archive, idx,
                   extracted, madeDirs, fs, ciFiles>>

\* install: request.urlretrieve(url, file.name) succeeds
Download(archives) ==
    /\ pc = "temp"
    /\ dlAttempts' = dlAttempts + 1
    /\ archive' \in archives
    /\ pc' = "downloaded"
    /\ UNCHANGED <<run, failedAt, inputs, locals, metaAttempts, tempFiles, idx,
                   extracted, madeDirs, fs, ciFiles>>

\* install: request.urlretrieve(url, file.name) raises
DownloadFail ==
    /\ pc = "temp"
    /\ dlAttempts' = dlAttempts + 1
    /\ pc' = OnNetworkError("temp")
    /\ failedAt' = "download"
    /\ tempFiles' = ReleaseTemp(tempFiles, run)
    /\ UNCHANGED <<run, inputs, locals, metaAttempts, archive, idx, extracted,
                   madeDirs, fs, ciFiles>>

\* install: os.makedirs(install_dir, exist_ok=True); tarfile.open(...)
OpenArchive ==
    /\ pc = "downloaded"
    /\ madeDirs' = TRUE
    /\ fs' = fs \cup {Root}
    /\ idx' = 1
    /\ pc' = "extract"
    /\ UNCHANGED <<run, failedAt, inputs, locals, network, tempFiles, archive,
                   extracted, ciFiles>>

\* install: tarfile.open raises on a download that is not a gzipped archive
OpenArchiveFail ==
    /\ pc = "downloaded"
    /\ madeDirs' = TRUE
    /\ fs' = fs \cup {Root}
    /\ Fail("open")
    /\ tempFiles' = ReleaseTemp(tempFiles, run)
    /\ UNCHANGED <<run, inputs, locals, network, archive, idx, extracted,
                   ciFiles>>

\* install: one pass of the loop on a member that is extracted
ExtractMember ==
    /\ pc = "extract" /\ idx <= Len(archive)
    /\ IsExtracted(archive[idx].name)
    /\ ~Conflict(fs, StripFirst(archive[idx].name), archive[idx].isdir)
    /\ extracted' = Append(extracted, StripFirst(archive[idx].name))
    /\ fs' = Extract(fs, StripFirst(archive[idx].name), archive[idx].isdir)
    /\ idx' = idx + 1
    /\ UNCHANGED <<pc, run, failedAt, inputs, locals, network, tempFiles,
                   archive, madeDirs, ciFiles>>

\* install: one pass of the loop on a member that is skipped
SkipMember ==
    /\ pc = "extract" /\ idx <= Len(archive)
    /\ ~IsExtracted(archive[idx].name)
    /\ idx' = idx + 1
    /\ UNCHANGED <<pc, run, failedAt, inputs, locals, network, tempFiles,
                   archive, extracted, madeDirs, fs, ciFiles>>

\* install: tar.extract raises
ExtractError ==
    /\ pc = "extract" /\ idx <= Len(archive)
    /\ IsExtracted(archive[idx].name)
    /\ Conflict(fs, StripFirst(archive[idx].name), archive[idx].isdir)
    /\ Fail("extract")
    /\ tempFiles' = ReleaseTemp(tempFiles, run)
    /\ UNCHANGED <<run, inputs, locals, network, archive, idx, extracted,
                   madeDirs, fs, ciFiles>>

\* install: the loop is over
ExtractDone ==
    /\ pc = "extract" /\ idx > Len(archive)
    /\ pc' = "verify"
    /\ UNCHANGED <<run, failedAt, inputs, locals, network, disk, ciFiles>>

\* install: both assertions pass, return clang_path, sysroot_path
VerifyOk ==
    /\ pc = "verify"
    /\ ClangIsFile(fs, host.sep) /\ SysrootIsDir(fs)
    /\ clang_path' = ClangPath(host.install_dir, host.sep)
    /\ sysroot_path' = SysrootPath(host.install_dir, host.sep)
    /\ tempFiles' = ReleaseTemp(tempFiles, run)
    /\ pc' = "installed"
    /\ UNCHANGED <<run, failedAt, inputs, version, tag, url, network, archive,
                   idx, extracted, madeDirs, fs, ciFiles>>

\* install: assert os.path.isfile(clang_path) fails
VerifyNoClang ==
    /\ pc = "verify"
    /\ ~ClangIsFile(fs, host.sep)
    /\ Fail("clang")
    /\ tempFiles' = ReleaseTemp(tempFiles, run)
    /\ UNCHANGED <<run, inputs, locals, network, archive, idx, extracted,
                   madeDirs, fs, ciFiles>>

\* install: assert os.path.isdir(sysroot_path) fails
VerifyNoSysroot ==
    /\ pc = "verify"
    /\ ClangIsFile(fs, host.sep) /\ ~SysrootIsDir(fs)
    /\ Fail("sysroot")
    /\ tempFiles' = ReleaseTemp(tempFiles, run)
    /\ UNCHANGED <<run, inputs, locals, network, archive, idx, extracted,
                   madeDirs, fs, ciFiles>>

\* main: if add_to_path: write_github_path(...)
PathExport ==
    /\ pc = "installed"
    /\ LET r == write_github_path(env, pathFile, envFile, host.install_dir,
                                  version, clang_path, sysroot_path, host.sep)
       IN IF ShouldWritePath(add_to_path, env)
          THEN /\ pathFile' = r.path
               /\ envFile' = r.env
               /\ pc' = IF r.ok THEN "exported" ELSE "failed"
               /\ failedAt' = IF r.ok THEN failedAt ELSE "write_github_path"
          ELSE /\ pc' = "exported"
               /\ UNCHANGED <<pathFile, envFile, failedAt>>
    /\ UNCHANGED <<run, inputs, locals, network, disk, outputFile, before>>

\* main: if 'GITHUB_OUTPUT' in os.environ: write_github_output(...)
OutputExport ==
    /\ pc = "exported"
    /\ LET r == write_github_output(env, outputFile, host.install_dir,
                                    version, clang_path, sysroot_path)
       IN IF ShouldWriteOutput(env)
          THEN /\ outputFile' = r.output
               /\ pc' = IF r.ok THEN "done" ELSE "failed"
               /\ failedAt' = IF r.ok THEN failedAt ELSE "write_github_output"
          ELSE /\ pc' = "done"
               /\ UNCHANGED <<outputFile, failedAt>>
    /\ UNCHANGED <<run, inputs, locals, network, disk, pathFile, envFile,
                   before>>

\* the script is started again on the same machine, with the files the
\* earlier runs left behind
NewRun ==
    /\ pc \in {"done", "failed"} /\ run < MaxRuns
    /\ run' = run + 1
    /\ pc' = "start" /\ failedAt' = "none"
    /\ argVersion' \in RunVersions
    /\ add_to_path' \in BOOLEAN
    /\ env' \in SUBSET GithubVars
    /\ version' = <<>> /\ tag' = <<>> /\ url' = <<>>
    /\ clang_path' = <<>> /\ sysroot_path' = <<>>
    /\ metaAttempts' = 0 /\ dlAttempts' = 0
    /\ archive' = <<>> /\ idx' = 0 /\ extracted' = <<>> /\ madeDirs' = FALSE
    /\ before' = [path |-> pathFile, env |-> envFile, output |-> outputFile]
    /\ UNCHANGED <<host, tempFiles, fs, pathFile, envFile, outputFile>>

Next ==
    \/ ResolveLiteral
    \/ ResolveLatest(RunTags)
    \/ ResolveLatestFail
    \/ BuildUrl
    \/ CreateTemp
    \/ Download(RunArchives)
    \/ DownloadFail
    \/ OpenArchive
    \/ OpenArchiveFail
    \/ ExtractMember
    \/ SkipMember
    \/ ExtractError
    \/ ExtractDone
    \/ VerifyOk
    \/ VerifyNoClang
    \/ VerifyNoSysroot
    \/ PathExport
    \/ OutputExport
    \/ NewRun

Spec == Init /\ [][Next]_vars

\* calculate_version_and_tag on every version and every fetched tag
NextVersion ==
    \/ ResolveLiteral
    \/ ResolveLatest(AllTags)

SpecVersion == InitVersion /\ [][NextVersion]_vars

\* calculate_artifact_url on every machine and system
NextUrl == BuildUrl

SpecUrl == InitUrl /\ [][NextUrl]_vars

\* the extraction loop on every archive
NextExtract ==
    \/ ExtractMember
    \/ SkipMember
    \/ ExtractError
    \/ ExtractDone

SpecExtract == InitExtract /\ [][NextExtract]_vars

\* ------------------------------------------------------------------------
\* Properties
\* ------------------------------------------------------------------------
EndsWithDotZero(v) ==
    Len(v) >= 2 /\ v[Len(v) - 1] = "." /\ v[Len(v)] = "0"

WithoutDotZero(v) ==
    IF EndsWithDotZero(v) THEN SubSeq(v, 1, Len(v) - 2) ELSE v

\* C1: for a version other than 'latest' the tag is 'wasi-sdk-' followed by
\* the version with one trailing '.0' removed if it ends in '.0', and by the
\* version unchanged otherwise.
C1_TagDropsOneDotZero ==
    (pc = "resolved" /\ argVersion # LATEST)
        => tag = TAG_PREFIX \o WithoutDotZero(argVersion)

IsAmd64AnyCase(arch) ==
    /\ Len(arch) = 5
    /\ arch[1] \in {"a", "A"} /\ arch[2] \in {"m", "M"} /\ arch[3] \in {"d", "D"}
    /\ arch[4] = "6" /\ arch[5] = "4"

IsLoweredFrom(low, s) ==
    /\ Len(low) = Len(s)
    /\ \A i \in 1..Len(s) :
           IF \E k \in 1..26 : UPPER[k] = s[i]
           THEN \E k \in 1..26 : UPPER[k] = s[i] /\ LOWER[k] = low[i]
           ELSE low[i] = s[i]

UrlHead == BASE \o <<"/">> \o tag \o <<"/">> \o TAG_PREFIX \o version \o <<"-">>

\* the URL is UrlHead, then the architecture a, '-', the operating system
\* name and '.tar.gz', the name being 'macos' for 'Darwin' and the system
\* name in lower case otherwise
UrlOs(a) == SubSeq(url, Len(UrlHead) + Len(a) + 2, Len(url) - Len(TAR_GZ))

UrlIs(a) ==
    /\ url = UrlHead \o a \o <<"-">> \o UrlOs(a) \o TAR_GZ
    /\ IF host.system = DARWIN THEN UrlOs(a) = MACOS
       ELSE IsLoweredFrom(UrlOs(a), host.system)

\* C2 as stated: the URL is '<base>/<tag>/wasi-sdk-<version>-<arch'>-<os'>.tar.gz'
\* where os' is 'macos' for 'Darwin' and the lowercased os otherwise, and
\* arch' is 'x86_64' exactly when arch is 'amd64' and arch unchanged for
\* every other string, 'AMD64' included.
C2_ArchMappedOnlyForLowercaseAmd64 ==
    pc = "url" => UrlIs(IF host.machine = AMD64 THEN X86_64 ELSE host.machine)

\* C2 amended: as above, but arch' is 'x86_64' exactly when arch equals
\* 'amd64' ignoring letter case ('amd64', 'AMD64', 'Amd64', ...), and arch
\* unchanged otherwise.
C2_ArchMappedForAnyCaseAmd64 ==
    pc = "url" => UrlIs(IF IsAmd64AnyCase(host.machine) THEN X86_64 ELSE host.machine)

C2_Witness ==
    /\ pc = "url"
    /\ IsAmd64AnyCase(host.machine) /\ host.machine # AMD64
    /\ host.system # DARWIN /\ host.system # Lower(host.system)

PreNormalization ==
    IF argVersion = LATEST THEN VersionFromTag(tag) ELSE argVersion

\* C3: the returned version contains a '.'; it is the version before
\* normalisation (the argument, or the fetched tag without 'wasi-sdk-') with
\* '.0' appended when that has no '.', and that version unchanged when it has.
C3_VersionHasMinor ==
    pc = "resolved" =>
        /\ \E i \in 1..Len(version) : version[i] = "."
        /\ IF \E i \in 1..Len(PreNormalization) : PreNormalization[i] = "."
           THEN version = PreNormalization
           ELSE version = PreNormalization \o <<".", "0">>

C3_Witness ==
    /\ pc = "resolved" /\ argVersion = LATEST
    /\ Len(tag) > Len(TAG_PREFIX)
    /\ version = SubSeq(tag, Len(TAG_PREFIX) + 1, Len(tag)) \o <<".", "0">>

FilesUnchanged ==
    /\ pathFile = before.path
    /\ envFile = before.env
    /\ outputFile = before.output

\* C4: an export that fails on an unset variable (GITHUB_PATH or GITHUB_ENV
\* in write_github_path, GITHUB_OUTPUT in write_github_output) fails before
\* anything is appended: the three files are as they were before the call.
C4_ExportFailsBeforeAnyWrite ==
    failedAt \in {"write_github_path", "write_github_output"} => FilesUnchanged

ExpectedClang ==
    host.install_dir \o <<host.sep>> \o BIN \o <<host.sep>> \o CLANG
        \o (IF host.system = WINDOWS THEN EXE ELSE <<>>)

ExpectedSysroot ==
    host.install_dir \o <<host.sep>> \o SHARE \o <<host.sep>> \o WASI_SYSROOT

\* C5: a run with add_to_path false and GITHUB_OUTPUT set that installs
\* successfully appends the four lines wasi-sdk-path, wasi-sdk-version,
\* clang-path and sysroot-path to the output file and leaves the path file
\* and the env file unchanged, whether or not GITHUB_PATH and GITHUB_ENV are set.
C5_OnlyOutputWritten ==
    (pc = "done" /\ ~add_to_path /\ "GITHUB_OUTPUT" \in env) =>
        /\ outputFile = before.output
               \o K_OUT_PATH \o host.install_dir \o <<NL>>
               \o K_OUT_VERSION \o version \o <<NL>>
               \o K_OUT_CLANG \o ExpectedClang \o <<NL>>
               \o K_OUT_SYSROOT \o ExpectedSysroot \o <<NL>>
        /\ pathFile = before.path
        /\ envFile = before.env

C5_Witness ==
    /\ pc = "done" /\ ~add_to_path
    /\ {"GITHUB_OUTPUT", "GITHUB_PATH", "GITHUB_ENV"} \subseteq env
    /\ outputFile # before.output

HasSlash(name) == \E i \in 1..Len(name) : name[i] = "/"

FirstSlash(name) ==
    CHOOSE i \in 1..Len(name) : name[i] = "/" /\ \A j \in 1..(i - 1) : name[j] # "/"

AfterFirstSlash(name) == SubSeq(name, FirstSlash(name) + 1, Len(name))

\* number of the members 1..n of the archive whose name has a '/'
Rank(n) == Cardinality({j \in 1..n : HasSlash(archive[j].name)})

\* C6: the loop extracts each member whose name has two or more segments
\* under its name without the first segment, in archive order, and extracts
\* no member whose name has one segment: the extracted names are exactly the
\* stripped names of the multi-segment members passed so far.
C6_ExtractedAreStrippedNames ==
    pc \in {"extract", "verify"} =>
        /\ Len(extracted) = Rank(idx - 1)
        /\ \A i \in 1..(idx - 1) :
               HasSlash(archive[i].name)
                   => extracted[Rank(i)] = AfterFirstSlash(archive[i].name)

C6_Witness ==
    /\ pc = "verify" /\ Len(archive) = 2
    /\ ~HasSlash(archive[1].name)
    /\ Len(Parts(archive[2].name)) = 3
    /\ extracted = <<AfterFirstSlash(archive[2].name)>>

ClangOnDisk ==
    \E e \in fs :
        /\ ~e.isdir /\ ~e.outside
        /\ e.path = <<BIN, CLANG \o (IF host.system = WINDOWS THEN EXE ELSE <<>>)>>

SysrootOnDisk ==
    \E e \in fs : e.isdir /\ ~e.outside /\ e.path = <<SHARE, WASI_SYSROOT>>

\* C7: when after extraction bin/clang (clang.exe on Windows) is not a file
\* or share/wasi-sysroot is not a directory, the run ends in a fatal error
\* and nothing is appended to the path, env or output file; install returns
\* its pair of paths only when both exist.
C7_VerificationGuardsExports ==
    /\ (pc \in {"installed", "exported", "done"} \/ clang_path # <<>>
            \/ sysroot_path # <<>> \/ ~FilesUnchanged)
           => (ClangOnDisk /\ SysrootOnDisk)
    /\ failedAt \in {"clang", "sysroot"}
           => /\ pc = "failed" /\ FilesUnchanged
              /\ clang_path = <<>> /\ sysroot_path = <<>>
              /\ ~(ClangOnDisk /\ SysrootOnDisk)
    /\ (pc = "failed" /\ failedAt = "none") = FALSE

C7_Witness ==
    /\ pc = "failed" /\ failedAt = "sysroot"
    /\ ClangOnDisk /\ ~SysrootOnDisk
    /\ add_to_path /\ GithubVars \subseteq env

NothingAfterDownload ==
    /\ ~madeDirs /\ archive = <<>> /\ idx = 0 /\ extracted = <<>>
    /\ clang_path = <<>> /\ sysroot_path = <<>>
    /\ FilesUnchanged

\* C8: each network request of a run is attempted at most once and a failure
\* of either ends the run: after a failed metadata fetch there is no
\* download, and after a failed download the install directory is not
\* created, nothing is extracted and no CI file is appended to.
C8_NetworkErrorsAreFatal ==
    /\ metaAttempts <= 1 /\ dlAttempts <= 1
    /\ failedAt = "metadata"
           => /\ pc = "failed" /\ dlAttempts = 0 /\ run \notin tempFiles
              /\ url = <<>> /\ NothingAfterDownload
    /\ failedAt = "download"
           => /\ pc = "failed" /\ NothingAfterDownload

C8_Witness ==
    /\ pc = "failed" /\ failedAt = "download"
    /\ argVersion = LATEST /\ metaAttempts = 1 /\ dlAttempts = 1
    /\ add_to_path /\ GithubVars \subseteq env

\* C9: a temporary download file, once created, is never deleted: no step of
\* any run, successful or failing, removes a temporary file.
C9_TempFileIsKept == [][tempFiles \subseteq tempFiles']_vars

C9_Witness ==
    /\ run = 2 /\ tempFiles = {1, 2}
    /\ pc = "failed" /\ failedAt = "extract"

\* C10: every path export appends the directory of the executable as its own
\* newline-terminated line, so the path file consists of whole lines.
C10_PathFileHasWholeLines ==
    pathFile = <<>> \/ pathFile[Len(pathFile)] = NL
====
